---- MODULE Spec2Model ----
(***************************************************************************)
(* A model of src/common/backport14.h (namespace ceph): the C++14/17/TS    *)
(* backports make_unique, max, not_fn and ostream_joiner.                  *)
(*                                                                         *)
(* Each component is a small state machine of its own; the module has one  *)
(* specification per component (SpecJoiner, SpecMax, SpecNotFn,            *)
(* SpecUnique).  A specification's Init puts the other components'         *)
(* variables in their idle state and its actions leave them unchanged.     *)
(***************************************************************************)
EXTENDS Integers, Sequences, FiniteSets

VARIABLES
  \* ---- ostream_joiner ----
  streams,     \* content of every std::basic_ostream, a sequence of text tokens
  joiner,      \* the ostream_joiner object: out_stream, delim, first_element
  jarg,        \* history: the arguments the joiner was constructed from
  jhist,       \* history: calls of operator=, and which of its writes raised
  assigned,    \* history: the values of the assignments that returned
  log,         \* history: what the joiner pushed through *out_stream, in order
  jev,         \* history: the last joiner operation and what it returned
  \* ---- max ----
  val,         \* the value of every object that can be passed to max
  val0,        \* history: val at the start
  mcall,       \* the last call of max: its operands and the reference returned
  \* ---- not_fn ----
  fn,          \* not_fn_result::fn, the decayed copy of the callable
  direct,      \* a second copy of the same callable, called directly
  ncall,       \* the last call of g = not_fn(f) and of f
  \* ---- make_unique ----
  heap,        \* every object ever allocated by new, live or destroyed
  owner,       \* what every std::unique_ptr handle owns (0: nothing)
  uev          \* history: the last make_unique request and its outcome

jvars == <<streams, joiner, jarg, jhist, assigned, log, jev>>
mvars == <<val, val0, mcall>>
nvars == <<fn, direct, ncall>>
uvars == <<heap, owner, uev>>
vars == <<jvars, mvars, nvars, uvars>>

\* An operation of one component leaves the other components alone.
JoinerOnly == UNCHANGED <<mvars, nvars, uvars>>
MaxOnly == UNCHANGED <<jvars, nvars, uvars>>
NotFnOnly == UNCHANGED <<jvars, mvars, uvars>>
UniqueOnly == UNCHANGED <<jvars, mvars, nvars>>

(***************************************************************************)
(* Bounds of the model.                                                    *)
(***************************************************************************)
MaxAssign == 3     \* calls of ostream_joiner::operator= per joiner
MaxVal == 3        \* the operands of max range over 0..MaxVal
MaxCalls == 2      \* calls of the negated callable
MaxObjs == 2       \* allocations by make_unique
MaxLen == 2        \* the length n of make_unique<E[]>(n) ranges over 0..MaxLen

(***************************************************************************)
(* ostream_joiner (namespace _backport_ts)                                 *)
(***************************************************************************)
Streams == {"os1", "os2"}
Delims == {",", ";"}
Values == {"1", "2"}

\* What an ostream_type* can hold besides the address of a stream.
NullStream == "null"
\* The address of the joiner's own out_stream member: no stream lives there.
SelfMember == "addressof(out_stream)"

\* The streams a write through pointer p can reach. Writing through a pointer
\* that designates no stream is undefined: the write lands on any stream or
\* on none.
Nowhere == "nowhere"
WriteTargets(p) == IF p \in Streams THEN {p} ELSE Streams \cup {Nowhere}

NoJoiner ==
  [alive |-> FALSE, out_stream |-> NullStream, delim |-> "", first_element |-> TRUE]
NoJarg == [form |-> "none", s |-> NullStream, d |-> "", moved |-> FALSE]
NoJhist == [calls |-> 0, raised |-> FALSE, firstValueRaised |-> FALSE]
NoJev == [op |-> "none", ret |-> "none", failAt |-> "none", wasFirst |-> TRUE,
          v |-> "", before |-> 0]

JoinerIdle ==
  /\ streams = [s \in Streams |-> <<>>]
  /\ joiner = NoJoiner
  /\ jarg = NoJarg
  /\ jhist = NoJhist
  /\ assigned = <<>>
  /\ log = <<>>
  /\ jev = NoJev

\* ostream_joiner(ostream_type& s, const DelimT& delimiter)
CtorCopyInit(s, d) ==
  [alive |-> TRUE, out_stream |-> SelfMember, delim |-> d, first_element |-> TRUE]

\* ostream_joiner(ostream_type& s, DelimT&& delimiter)
CtorMoveInit(s, d) ==
  [alive |-> TRUE, out_stream |-> s, delim |-> d, first_element |-> TRUE]

CtorCopy(s, d) ==
  /\ JoinerOnly
  /\ ~joiner.alive
  /\ joiner' = CtorCopyInit(s, d)
  /\ jarg' = [form |-> "copy", s |-> s, d |-> d, moved |-> FALSE]
  /\ jev' = [NoJev EXCEPT !.op = "ctor"]
  /\ UNCHANGED <<streams, jhist, assigned, log>>

CtorMove(s, d) ==
  /\ JoinerOnly
  /\ ~joiner.alive
  /\ joiner' = CtorMoveInit(s, d)
  /\ jarg' = [form |-> "move", s |-> s, d |-> d, moved |-> TRUE]
  /\ jev' = [NoJev EXCEPT !.op = "ctor"]
  /\ UNCHANGED <<streams, jhist, assigned, log>>

\* make_ostream_joiner(os, delimiter): std::forward<DelimT> selects the
\* const DelimT& constructor for an lvalue delimiter and the DelimT&& one
\* for an rvalue.
MakeOstreamJoiner(s, d, category) ==
  /\ JoinerOnly
  /\ ~joiner.alive
  /\ joiner' = IF category = "lvalue" THEN CtorCopyInit(s, d) ELSE CtorMoveInit(s, d)
  /\ jarg' = [form |-> "make_" \o category, s |-> s, d |-> d,
              moved |-> (category = "rvalue")]
  /\ jev' = [NoJev EXCEPT !.op = "ctor"]
  /\ UNCHANGED <<streams, jhist, assigned, log>>

\* The flag as operator= would leave it if it marked the joiner only after
\* the value had been written.
AssignEffect_MarkAfterWrite(first, d, v, failAt) ==
  [wrote |-> (IF ~first /\ failAt # "delim" THEN <<d>> ELSE <<>>)
             \o (IF failAt = "none" THEN <<v>> ELSE <<>>),
   first_element |-> IF failAt = "none" THEN FALSE ELSE first]

\* operator=(const T& value), with first = first_element and d = delim on
\* entry. failAt says which stream write raises, if any: "delim" (line 166,
\* reached only when ~first), "value" (line 168) or "none". A write that
\* raises leaves nothing on the stream and ends the call.
AssignEffect(first, d, v, failAt) ==
  [wrote |-> (IF ~first /\ failAt # "delim" THEN <<d>> ELSE <<>>)
             \o (IF failAt = "none" THEN <<v>> ELSE <<>>),
   first_element |-> IF failAt = "delim" THEN first ELSE FALSE]

Assign(v, failAt, tgt) ==
  /\ JoinerOnly
  /\ joiner.alive
  /\ jhist.calls < MaxAssign
  /\ failAt = "delim" => ~joiner.first_element
  /\ tgt \in WriteTargets(joiner.out_stream)
  /\ LET e == AssignEffect(joiner.first_element, joiner.delim, v, failAt)
     IN /\ joiner' = [joiner EXCEPT !.first_element = e.first_element]
        /\ streams' = IF tgt \in Streams
                        THEN [streams EXCEPT ![tgt] = @ \o e.wrote]
                        ELSE streams
        /\ log' = log \o e.wrote
        /\ assigned' = IF failAt = "none" THEN Append(assigned, v) ELSE assigned
        /\ jhist' = [calls |-> jhist.calls + 1,
                     raised |-> jhist.raised \/ failAt # "none",
                     firstValueRaised |-> jhist.firstValueRaised
                                          \/ (failAt = "value" /\ jhist.calls = 0)]
        /\ jev' = [op |-> "assign", ret |-> IF failAt = "none" THEN "self_ref" ELSE "raised",
                   failAt |-> failAt, wasFirst |-> joiner.first_element,
                   v |-> v, before |-> Len(log)]
  /\ UNCHANGED jarg

\* operator*() noexcept { return *this; }
Deref ==
  /\ JoinerOnly
  /\ joiner.alive
  /\ jev' = [NoJev EXCEPT !.op = "deref", !.ret = "self_ref"]
  /\ UNCHANGED <<streams, joiner, jarg, jhist, assigned, log>>

\* operator++() noexcept { return *this; }
PreInc ==
  /\ JoinerOnly
  /\ joiner.alive
  /\ jev' = [NoJev EXCEPT !.op = "preinc", !.ret = "self_ref"]
  /\ UNCHANGED <<streams, joiner, jarg, jhist, assigned, log>>

\* operator++(int) noexcept { return this; }: the pointer, not the object.
PostInc ==
  /\ JoinerOnly
  /\ joiner.alive
  /\ jev' = [NoJev EXCEPT !.op = "postinc", !.ret = "self_ptr"]
  /\ UNCHANGED <<streams, joiner, jarg, jhist, assigned, log>>

JoinerNext ==
  \/ \E s \in Streams, d \in Delims : CtorMove(s, d)
  \/ \E s \in Streams, d \in Delims : CtorCopy(s, d)
  \/ \E s \in Streams, d \in Delims, c \in {"lvalue", "rvalue"} :
       MakeOstreamJoiner(s, d, c)
  \/ \E v \in Values, f \in {"none", "delim", "value"}, t \in Streams \cup {Nowhere} :
       Assign(v, f, t)
  \/ Deref
  \/ PreInc
  \/ PostInc

(***************************************************************************)
(* max (namespace _backport14)                                             *)
(***************************************************************************)
\* The objects a caller can pass by const reference; a reference is the
\* name of the object it designates, so max(x, x) is a call too.
Objs == {"x", "y", "z"}
NoObj == "none"
NoMcall == [done |-> FALSE, a |-> NoObj, b |-> NoObj, ret |-> NoObj]

MaxIdle ==
  /\ val = [o \in Objs |-> 0]
  /\ val0 = val
  /\ mcall = NoMcall

\* return b < a ? a : b;
Max_TieToSecond(a, b) == IF val[b] < val[a] THEN a ELSE b

\* return a < b ? a : b;
Max_Min(a, b) == IF val[a] < val[b] THEN a ELSE b

\* constexpr const T& max(const T& a, const T& b) { return a < b ? b : a; }
Max(a, b) == IF val[a] < val[b] THEN b ELSE a

CallMax(a, b) ==
  /\ MaxOnly
  /\ mcall' = [done |-> TRUE, a |-> a, b |-> b, ret |-> Max(a, b)]
  /\ UNCHANGED <<val, val0>>

MaxNext == \E a \in Objs, b \in Objs : CallMax(a, b)

(***************************************************************************)
(* not_fn (namespace _backport17)                                          *)
(***************************************************************************)
\* The four call qualifiers of a function object.
Quals == {"lvalue", "const_lvalue", "rvalue", "const_rvalue"}
CallArgs == {0, 1}

\* The callables f of the model. Each has the four operator() overloads and
\* records every call made on it (its side effect).
\*   isOne        f(a) = (a = 1) under every qualifier
\*   always       f(a) = true
\*   byQualifier  the non-const overloads return true, the const ones false
\*   byRvalue     the && overloads return true, the & ones false
\*   toggle       every call returns the opposite of the call before
Fns == {"isOne", "always", "byQualifier", "byRvalue", "toggle"}

NewCallable(kind) == [kind |-> kind, calls |-> <<>>]

\* The result of calling callable f with qualifier q on argument a.
FResult(f, q, a) ==
  CASE f.kind = "isOne" -> a = 1
    [] f.kind = "always" -> TRUE
    [] f.kind = "byQualifier" -> q \in {"lvalue", "rvalue"}
    [] f.kind = "byRvalue" -> q \in {"rvalue", "const_rvalue"}
    [] f.kind = "toggle" -> Len(f.calls) % 2 = 0

\* One call f(a) with qualifier q: its result and the callable after it.
Call(f, q, a) ==
  [ret |-> FResult(f, q, a), f |-> [f EXCEPT !.calls = Append(@, <<q, a>>)]]

\* The && overloads without std::move: fn is called as an lvalue.
InnerQual_NoMove(q) ==
  CASE q = "lvalue" -> "lvalue"
    [] q = "const_lvalue" -> "const_lvalue"
    [] q = "rvalue" -> "lvalue"
    [] q = "const_rvalue" -> "const_lvalue"

\* The qualifier with which each operator() overload of not_fn_result calls
\* its member fn: fn(...) in the & and const& overloads, std::move(fn)(...)
\* in the && and const&& ones.
InnerQual(q) ==
  CASE q = "lvalue" -> "lvalue"
    [] q = "const_lvalue" -> "const_lvalue"
    [] q = "rvalue" -> "rvalue"
    [] q = "const_rvalue" -> "const_rvalue"

\* not_fn_result::operator()(Args&&... args) called with qualifier q on the
\* adapter whose member fn is f: return !fn(std::forward<Args>(args)...).
NotFnInvoke(f, q, a) ==
  LET r == Call(f, InnerQual(q), a) IN [ret |-> ~r.ret, f |-> r.f]

NoNcall == [done |-> FALSE, q |-> "none", a |-> 0, g |-> FALSE, f |-> FALSE, before |-> 0]

NotFnIdle ==
  /\ fn = NewCallable("isOne")
  /\ direct = fn
  /\ ncall = NoNcall

\* g = not_fn(f): not_fn_result's constructor stores the decayed copy of f.
NotFnInit ==
  /\ \E kind \in Fns : fn = NewCallable(kind)
  /\ direct = fn
  /\ ncall = NoNcall

\* One call g(a) with qualifier q, and the same call of f made directly.
CallG(q, a) ==
  /\ NotFnOnly
  /\ Len(fn.calls) < MaxCalls
  /\ LET g == NotFnInvoke(fn, q, a)
         f == Call(direct, q, a)
     IN /\ fn' = g.f
        /\ direct' = f.f
        /\ ncall' = [done |-> TRUE, q |-> q, a |-> a, g |-> g.ret, f |-> f.ret,
                     before |-> Len(fn.calls)]

NotFnNext == \E q \in Quals, a \in CallArgs : CallG(q, a)

(***************************************************************************)
(* make_unique (namespace _backport14)                                     *)
(***************************************************************************)
\* The shapes of the target type T of make_unique<T>: a plain type, an
\* array of unknown bound E[] and an array of known bound E[N].
TargetTypes ==
  {[shape |-> "plain", N |-> 0], [shape |-> "unbounded", N |-> 0],
   [shape |-> "bounded", N |-> 5]}

\* Call arguments: a std::size_t of some value, or an object of another
\* type that does not convert to std::size_t.
SizeArg(n) == [t |-> "size_t", v |-> n]
ObjArg == [t |-> "obj", v |-> 0]
ArgLists ==
  {<<>>, <<ObjArg>>} \cup {<<SizeArg(n)>> : n \in 0..MaxLen}

Handles == {"p", "q"}

\* The value of a value-initialized element, and of one left uninitialized.
ValueInit == "E()"
Indeterminate == "indeterminate"

\* The primary template alone: no specialization for T[N].
Uniquity_NoBounded(T) ==
  CASE T.shape = "plain" -> {"datum"}
    [] T.shape = "unbounded" -> {"array"}
    [] T.shape = "bounded" -> {"datum"}

\* The member types of uniquity<T>: the primary template and its two
\* partial specializations.
Uniquity(T) ==
  CASE T.shape = "plain" -> {"datum"}
    [] T.shape = "unbounded" -> {"array"}
    [] T.shape = "bounded" -> {"verboten"}

\* The three overloads of make_unique, named by the member of uniquity<T>
\* their return type uses; the third is deleted.
Overloads == {"datum", "array", "verboten"}
Deleted == {"verboten"}

\* The overloads whose return type typename uniquity<T>::member exists:
\* the others are removed from the overload set (substitution failure).
SignatureOK(T) == {o \in Overloads : o \in Uniquity(T)}

\* Whether the parameter list of overload o accepts the arguments: Args&&...
\* accepts every list, std::size_t n accepts one argument that converts.
AcceptsArgs(o, args) ==
  IF o = "array" THEN Len(args) = 1 /\ args[1].t = "size_t" ELSE TRUE

Viable(T, args) == {o \in SignatureOK(T) : AcceptsArgs(o, args)}

\* The outcome of the call make_unique<T>(args...): the overload called, or
\* "error" when the call is ill-formed (no viable overload, or the one
\* selected is deleted). At most one overload is viable for any T.
Resolve(T, args) ==
  LET v == Viable(T, args)
  IN IF v = {} \/ v \subseteq Deleted THEN "error" ELSE CHOOSE o \in v : o \notin Deleted

\* new T() in place of new T(std::forward<Args>(args)...).
NewDatum_ArgsDropped(T, args) ==
  [type |-> T, init |-> <<>>, elems |-> <<>>, live |-> TRUE, dtors |-> 0]

\* new T(std::forward<Args>(args)...)
NewDatum(T, args) ==
  [type |-> T, init |-> args, elems |-> <<>>, live |-> TRUE, dtors |-> 0]

\* new remove_extent_t<T>[n] without the (): the elements are not initialized.
NewArray_NoInit(T, n) ==
  [type |-> T, init |-> <<SizeArg(n)>>, elems |-> [i \in 1..n |-> Indeterminate],
   live |-> TRUE, dtors |-> 0]

\* new remove_extent_t<T>[n]()
NewArray(T, n) ==
  [type |-> T, init |-> <<SizeArg(n)>>, elems |-> [i \in 1..n |-> ValueInit],
   live |-> TRUE, dtors |-> 0]

NoUev == [op |-> "none", h |-> "none", T |-> [shape |-> "none", N |-> 0],
          args |-> <<>>, before |-> 0]

UniqueIdle ==
  /\ heap = <<>>
  /\ owner = [h \in Handles |-> 0]
  /\ uev = NoUev

\* ~unique_ptr / reset of the handle that owns object id: delete it.
Destroy(hp, id) ==
  IF id = 0 THEN hp ELSE [hp EXCEPT ![id].live = FALSE, ![id].dtors = @ + 1]

\* h = make_unique<T>(args...), plain T: the object is allocated, the
\* returned unique_ptr<T> is moved into h, what h owned before is deleted.
MakeUnique(h, T, args) ==
  /\ UniqueOnly
  /\ Len(heap) < MaxObjs
  /\ Resolve(T, args) = "datum"
  /\ heap' = Append(Destroy(heap, owner[h]), NewDatum(T, args))
  /\ owner' = [owner EXCEPT ![h] = Len(heap) + 1]
  /\ uev' = [op |-> "datum", h |-> h, T |-> T, args |-> args, before |-> Len(heap)]

\* h = make_unique<E[]>(n)
MakeUniqueArray(h, T, args) ==
  /\ UniqueOnly
  /\ Len(heap) < MaxObjs
  /\ Resolve(T, args) = "array"
  /\ heap' = Append(Destroy(heap, owner[h]), NewArray(T, args[1].v))
  /\ owner' = [owner EXCEPT ![h] = Len(heap) + 1]
  /\ uev' = [op |-> "array", h |-> h, T |-> T, args |-> args, before |-> Len(heap)]

\* A call of make_unique that is ill-formed: nothing runs.
MakeUniqueRejected(T, args) ==
  /\ UniqueOnly
  /\ Resolve(T, args) = "error"
  /\ uev' = [op |-> "error", h |-> "none", T |-> T, args |-> args, before |-> Len(heap)]
  /\ UNCHANGED <<heap, owner>>

\* to = std::move(from): to deletes what it owned and takes over from's object.
MoveHandle(from, to) ==
  /\ UniqueOnly
  /\ from # to
  /\ heap' = Destroy(heap, owner[to])
  /\ owner' = [owner EXCEPT ![to] = owner[from], ![from] = 0]
  /\ uev' = [NoUev EXCEPT !.op = "move", !.h = to, !.before = Len(heap)]

\* h.reset(), or the end of h's lifetime.
DropHandle(h) ==
  /\ UniqueOnly
  /\ owner[h] # 0
  /\ heap' = Destroy(heap, owner[h])
  /\ owner' = [owner EXCEPT ![h] = 0]
  /\ uev' = [NoUev EXCEPT !.op = "drop", !.h = h, !.before = Len(heap)]

UniqueNext ==
  \/ \E h \in Handles, T \in TargetTypes, args \in ArgLists : MakeUnique(h, T, args)
  \/ \E h \in Handles, T \in TargetTypes, args \in ArgLists : MakeUniqueArray(h, T, args)
  \/ \E T \in TargetTypes, args \in ArgLists : MakeUniqueRejected(T, args)
  \/ \E from \in Handles, to \in Handles : MoveHandle(from, to)
  \/ \E h \in Handles : DropHandle(h)

(***************************************************************************)
(* The specifications, one per component.                                  *)
(***************************************************************************)
JoinerInit == JoinerIdle /\ MaxIdle /\ NotFnIdle /\ UniqueIdle
SpecJoiner == JoinerInit /\ [][JoinerNext]_vars

MaxInit ==
  /\ val \in [Objs -> 0..MaxVal]
  /\ val0 = val
  /\ mcall = NoMcall
  /\ JoinerIdle /\ NotFnIdle /\ UniqueIdle
SpecMax == MaxInit /\ [][MaxNext]_vars

NotFnSpecInit == NotFnInit /\ JoinerIdle /\ MaxIdle /\ UniqueIdle
SpecNotFn == NotFnSpecInit /\ [][NotFnNext]_vars

UniqueInit == UniqueIdle /\ JoinerIdle /\ MaxIdle /\ NotFnIdle
SpecUnique == UniqueInit /\ [][UniqueNext]_vars

(***************************************************************************)
(* The claims.                                                             *)
(***************************************************************************)
RECURSIVE Join(_, _)
\* v1 d v2 d ... d vn, the empty sequence for n = 0.
Join(vs, d) ==
  IF Len(vs) = 0 THEN <<>>
  ELSE IF Len(vs) = 1 THEN <<vs[1]>>
  ELSE Join(SubSeq(vs, 1, Len(vs) - 1), d) \o <<d, vs[Len(vs)]>>

\* C1: after n assignments v1..vn (none of whose writes raised), however
\* interleaved with dereference and advance, the content the joiner has
\* contributed to the stream it was constructed over is v1 d v2 d ... d vn.
C1_ContentIsJoined ==
  (joiner.alive /\ ~jhist.raised) => streams[jarg.s] = Join(assigned, jarg.d)

\* C2: after construction, by either constructor or by make_ostream_joiner,
\* the joiner's stream pointer designates the stream argument s, and every
\* write of the joiner goes to that stream and to no other.
C2_BoundToStreamArgument ==
  joiner.alive =>
    /\ joiner.out_stream = jarg.s
    /\ joiner.delim = jarg.d
    /\ streams[jarg.s] = log
    /\ \A s \in Streams \ {jarg.s} : streams[s] = <<>>

IterOps == {"deref", "preinc", "postinc"}

\* C3: operator*, operator++() and operator++(int) each return the adapter
\* object itself and change neither the streams nor the adapter's stream
\* pointer, delimiter and first-element flag.
C3_IteratorOpsReturnSelf ==
  [][jev'.op \in IterOps => (jev'.ret = "self_ref" /\ UNCHANGED <<streams, joiner>>)]_vars

\* What the last call of operator= pushed through *out_stream.
LastWrote == SubSeq(log, jev.before + 1, Len(log))

\* C4 as claimed: within one assignment the delimiter (if not first) is
\* written, then the value, and only then is the adapter marked; so when the
\* value write of the first assignment raises, the adapter is still in its
\* 'no value written yet' state and no delimiter ever leads the output.
C4_MarkedAfterValueWrite ==
  /\ (jev.op = "assign" /\ jev.failAt = "value" /\ jev.wasFirst) => joiner.first_element
  /\ log # <<>> => log[1] \in Values

\* C4 amended: within one assignment the delimiter (if not first) is
\* written, then the adapter is marked, and only then is the value written;
\* so when the value write of the first assignment raises, the adapter is
\* already marked and the next assignment writes a leading delimiter.
C4_MarkedBeforeValueWrite ==
  /\ jev.op = "assign" =>
       /\ jev.failAt = "delim" => (~jev.wasFirst /\ joiner.first_element = jev.wasFirst
                                    /\ LastWrote = <<>>)
       /\ jev.failAt = "value" => (~joiner.first_element
                                    /\ LastWrote = IF jev.wasFirst THEN <<>>
                                                   ELSE <<joiner.delim>>)
       /\ jev.failAt = "none" => (~joiner.first_element
                                   /\ LastWrote = IF jev.wasFirst THEN <<jev.v>>
                                                  ELSE <<joiner.delim, jev.v>>)
  /\ (jhist.firstValueRaised /\ log # <<>>) => log[1] = joiner.delim

C4_Witness ==
  /\ jhist.firstValueRaised
  /\ jev.op = "assign" /\ jev.failAt = "none"
  /\ log = <<joiner.delim, jev.v>>

\* C5: for every callable f and argument a, g = not_fn(f) called with any
\* of the four qualifiers returns !f(a), and the call invokes the wrapped
\* callable exactly once, with that qualifier and argument, leaving it as
\* one direct call of f would.
C5_NotFnNegatesCallsOnce ==
  ncall.done =>
    /\ ncall.g = ~ncall.f
    /\ Len(fn.calls) = ncall.before + 1
    /\ fn.calls[Len(fn.calls)] = <<ncall.q, ncall.a>>
    /\ fn = direct

C5_Witness ==
  /\ ncall.done /\ ncall.q = "const_rvalue" /\ fn.kind = "byRvalue"
  /\ ncall.f /\ ~ncall.g
  /\ Len(fn.calls) = 2

Tie(a, b) == ~(val[a] < val[b]) /\ ~(val[b] < val[a])

\* C6 as claimed: when the operands compare equal, max returns a reference
\* to the second argument b.
C6_TieReturnsSecond ==
  (mcall.done /\ Tie(mcall.a, mcall.b)) => mcall.ret = mcall.b

\* C6 amended: when the operands compare equal, max returns a reference to
\* the first argument a.
C6_TieReturnsFirst ==
  (mcall.done /\ Tie(mcall.a, mcall.b)) => mcall.ret = mcall.a

C6_Witness ==
  /\ mcall.done /\ mcall.a # mcall.b /\ Tie(mcall.a, mcall.b)
  /\ mcall.ret = mcall.a

\* C7: the value max(a, b) returns is one of the operands, is not less than
\* either, equals b in value when a and b compare equal and is otherwise
\* the greater of the two; a and b keep their values.
C7_MaxValue ==
  mcall.done =>
    LET a == mcall.a
        b == mcall.b
        r == mcall.ret
    IN /\ r \in {a, b}
       /\ ~(val[r] < val[a]) /\ ~(val[r] < val[b])
       /\ Tie(a, b) => val[r] = val[b]
       /\ val[a] < val[b] => (r = b /\ val[r] > val[a])
       /\ val[b] < val[a] => (r = a /\ val[r] > val[b])
       /\ val = val0

C7_Witness ==
  /\ mcall.done /\ val[mcall.a] < val[mcall.b] /\ mcall.ret = mcall.b
  /\ val[mcall.ret] = MaxVal

Owners(id) == {h \in Handles : owner[h] = id}
Ids == 1..Len(heap)

\* C8: make_unique<T>(args...) for a plain T constructs one instance of T
\* from those arguments and returns the only handle owning it; every live
\* instance has exactly one owner, and an instance whose handle was dropped,
\* moved over or reassigned has been destroyed exactly once.
C8_UniqueOwnership ==
  /\ \A id \in Ids :
       heap[id].type.shape = "plain" =>
         /\ heap[id].live => (Cardinality(Owners(id)) = 1 /\ heap[id].dtors = 0)
         /\ ~heap[id].live => (Owners(id) = {} /\ heap[id].dtors = 1)
  /\ uev.op = "datum" =>
       /\ Len(heap) = uev.before + 1
       /\ heap[Len(heap)].init = uev.args
       /\ heap[Len(heap)].live
       /\ Owners(Len(heap)) = {uev.h}

C8_Witness ==
  /\ uev.op = "datum" /\ uev.args # <<>>
  /\ \E id \in Ids : heap[id].type.shape = "plain" /\ ~heap[id].live /\ heap[id].dtors = 1
  /\ Owners(Len(heap)) = {uev.h}

\* C9: make_unique<E[]>(n), for every n >= 0, returns the only handle owning
\* a sequence of exactly n elements, each value-initialized.
C9_ArrayValueInitialized ==
  /\ \A id \in Ids :
       heap[id].type.shape = "unbounded" =>
         /\ Len(heap[id].elems) = heap[id].init[1].v
         /\ \A i \in 1..Len(heap[id].elems) : heap[id].elems[i] = ValueInit
         /\ heap[id].live => Cardinality(Owners(id)) = 1
  /\ uev.op = "array" =>
       /\ Len(heap) = uev.before + 1
       /\ heap[Len(heap)].type.shape = "unbounded"
       /\ Len(heap[Len(heap)].elems) = uev.args[1].v
       /\ heap[Len(heap)].live
       /\ Owners(Len(heap)) = {uev.h}

C9_Witness ==
  /\ uev.op = "array"
  /\ \E id \in Ids : heap[id].type.shape = "unbounded" /\ Len(heap[id].elems) = 0
  /\ \E id \in Ids : heap[id].type.shape = "unbounded" /\ Len(heap[id].elems) = MaxLen
                     /\ heap[id].live

\* C10: the overload is selected by the shape of T alone: for a plain type
\* only the forwarding overload survives, for E[] only the length overload,
\* for E[N] only the deleted one, so that every make_unique<E[N]>(...) is
\* rejected and no object of a bounded array type is ever allocated.
C10_OverloadByShape ==
  /\ uev.op \in {"datum", "array", "error"} =>
       /\ uev.T.shape = "plain" =>
            /\ SignatureOK(uev.T) = {"datum"}
            /\ Viable(uev.T, uev.args) = {"datum"}
            /\ uev.op = "datum"
       /\ uev.T.shape = "unbounded" =>
            /\ SignatureOK(uev.T) = {"array"}
            /\ uev.op = IF Len(uev.args) = 1 /\ uev.args[1].t = "size_t"
                          THEN "array" ELSE "error"
       /\ uev.T.shape = "bounded" =>
            /\ SignatureOK(uev.T) = {"verboten"}
            /\ Viable(uev.T, uev.args) = {"verboten"}
            /\ uev.op = "error"
       /\ uev.op = "error" => Len(heap) = uev.before
  /\ \A id \in Ids :
       /\ heap[id].type.shape # "bounded"
       /\ heap[id].type.shape = "plain" => heap[id].elems = <<>>

C10_Witness ==
  /\ uev.op = "error" /\ uev.T.shape = "bounded" /\ uev.args = <<SizeArg(MaxLen)>>
  /\ Len(heap) = MaxObjs
====
